---- MODULE Spec2Model ----
(***************************************************************************)
(* A model of TreadmillFB303 (src/TreadmillFB303.cpp): the fb303 handler   *)
(* of the Treadmill load generator (status register, configuration store,  *)
(* scheduler control operations) and the process-wide singleton bootstrap. *)
(*                                                                         *)
(* Strings that the code parses are sequences of one-character strings, so *)
(* that folly::tryTo<uint32_t> is computed character by character.         *)
(***************************************************************************)
EXTENDS Integers, Sequences, FiniteSets, TLC

(***************************************************************************)
(* Bounds of the model.                                                    *)
(***************************************************************************)
\* Number of distinct configuration keys the callers use.
NumKeys == 2

\* Number of concurrently running caller threads.
NumThreads == 2

Keys == 1..NumKeys

\* Calls counted per worker thread.
MaxMade == 2

Threads == 1..NumThreads

(***************************************************************************)
(* Input domains.                                                          *)
(***************************************************************************)
Empty == << >>

\* Values passed to setConfiguration in the handler specification.
Values == { <<"4", "2">>, <<"a", "b", "c">> }

\* Values the store holds in the configuration-store specification: plain
\* numbers, the uint32 boundary, padded numbers, text.
NumericValues ==
  { Empty,
    <<"4", "2">>,
    <<"a", "b", "c">>,
    <<"4", "2", "9", "4", "9", "6", "7", "2", "9", "5">>,
    <<"4", "2", "9", "4", "9", "6", "7", "2", "9", "6">>,
    <<" ", "0", "7", " ">>,
    <<"4", "x">>,
    <<"-", "1">> }

\* Defaults passed to getConfigurationValue(key, uint32_t), as (hi, lo) pairs.
UintDefaults == { [hi |-> 0, lo |-> 7] }

StoreUintDefaults == { [hi |-> 0, lo |-> 0], [hi |-> 0, lo |-> 7] }

\* Defaults passed to getConfigurationValue(key, string).
StringDefaults == { <<"d">> }

StoreStringDefaults == { Empty, <<"d">> }

\* int32 arguments of setRps / setMaxOutstanding.
Int32Samples == { -1, 5 }

\* Phase names carried by a ResumeRequest.
PhaseNames == { "UNKNOWN_PHASE", "warmup" }

\* fb303 fb_status values.
DEAD == 0
STARTING == 1
ALIVE == 2
STOPPING == 3
STOPPED == 4
WARNING == 5

Status == { DEAD, STARTING, ALIVE, STOPPING, STOPPED, WARNING }

\* Arguments passed to setStatus.
StatusInputs == { STARTING, ALIVE, STOPPING }

\* fb303::cpp2::_fb303_status_VALUES_TO_NAMES
StatusNames ==
  [ s \in Status |->
      CASE s = DEAD -> "DEAD"
        [] s = STARTING -> "STARTING"
        [] s = ALIVE -> "ALIVE"
        [] s = STOPPING -> "STOPPING"
        [] s = STOPPED -> "STOPPED"
        [] s = WARNING -> "WARNING" ]

\* Values of time(nullptr) at construction.
TimeSamples == { 1000 }

\* A ResumeRequest pointer: null, or a request with a phase name.
NullRequest == [null |-> TRUE, phaseName |-> ""]

Request(p) == [null |-> FALSE, phaseName |-> p]

Requests == { NullRequest } \cup { Request(p) : p \in PhaseNames }

VARIABLES
  status_,         \* TreadmillFB303::status_
  aliveSince_,     \* TreadmillFB303::aliveSince_
  configuration_,  \* *TreadmillFB303::configuration_ : a std::map, as a function
  scheduler_,      \* the state of the Scheduler behind TreadmillFB303::scheduler_
  last,            \* the last completed call: operation, arguments, result
  lastSet,         \* history: per key, the last setConfiguration since the last pause
  lastStatus,      \* history: the argument of the last setStatus, if any
  instance,        \* the global std::shared_ptr<TreadmillFB303> instance
  instance_mutex,  \* the global folly::SharedMutex instance_mutex
  handlers,        \* number of TreadmillFB303 objects constructed so far
  fatal,           \* which LOG(FATAL) ended the process, if any
  bpc,             \* per thread: where it is in make_fb303 / getGlobalTreadmillFB303
  bop,             \* per thread: the function it was called into
  bret,            \* per thread: the pointer getGlobalTreadmillFB303 returned to it
  server,          \* per thread: the ThriftServer its make_fb303 made
  serving,         \* number of serving threads started so far
  serve_thread,    \* per thread: where the std::thread its make_fb303 started is
  server_thread,   \* per thread: the server_thread handle its make_fb303 filled
  stopping,        \* per thread: its server's event loop was told to terminate
  pc,              \* per worker thread: where it is in a handler method
  call,            \* per worker thread: the method it runs and its arguments
  ret,             \* per worker thread: the result of the method it ran
  counted,         \* per worker thread: what configuration_->count returned
  access,          \* per worker thread: the std::map member function it is inside
  torn,            \* per worker thread: its map access raced with another access
  made,            \* per worker thread: number of calls it has completed
  mutex_,          \* TreadmillFB303::mutex_, the folly::SharedMutex of status_
  trail,           \* per worker thread: the calls its running method has made
  snap,            \* per worker thread: the fb_status in its local (argument or copy)
  sret,            \* per worker thread: what its status method returned
  seen,            \* per worker thread: history, the values status_ had during its call
  stale,           \* per worker thread: history, values a pause had paused over at its start
  written          \* history: the arguments of the setStatus calls started so far

handlerVars ==
  << status_, aliveSince_, configuration_, scheduler_, last, lastSet, lastStatus >>

serveVars == << serve_thread, server_thread, stopping >>

bootVars ==
  << instance, instance_mutex, handlers, fatal, bpc, bop, bret, server, serving,
     serveVars >>

threadVars == << pc, call, ret, counted, access, torn, made >>

workerVars == << mutex_, trail, snap, sret, seen, stale, written >>

vars == << handlerVars, bootVars, threadVars, workerVars >>


(***************************************************************************)
(* std::map<std::string, std::string>: a function from the keys present    *)
(* to their values.                                                        *)
(***************************************************************************)
EmptyMap == [k \in {} |-> Empty]

\* std::map::count
Count(m, k) == IF k \in DOMAIN m THEN 1 ELSE 0

\* std::map::at : the mapped value, or std::out_of_range when k is absent
At(m, k) ==
  IF k \in DOMAIN m
    THEN [outcome |-> "ok", value |-> m[k]]
    ELSE [outcome |-> "throw", value |-> Empty]

\* std::map::emplace : inserts only when no element with the key exists
Emplace(m, k, v) ==
  IF k \in DOMAIN m
    THEN m
    ELSE [x \in DOMAIN m \cup {k} |-> IF x = k THEN v ELSE m[x]]

\* std::map::clear
Clear(m) == EmptyMap

(***************************************************************************)
(* folly::tryTo<uint32_t>(std::string): optional leading whitespace, then  *)
(* at least one digit, all digits up to the first non-digit converted with *)
(* an overflow check, then nothing but whitespace.                         *)
(***************************************************************************)
\* A uint32_t value v is the pair (hi, lo) with v = hi * 10^5 + lo and
\* lo < 10^5, so that the largest value, 4294967295, is (42949, 67295).
LowDigits == 5

MaxDigits == 10

UINT32_MAX_HI == 42949

UINT32_MAX_LO == 67295

U32(hi, lo) == [hi |-> hi, lo |-> lo]

Digits == { "0", "1", "2", "3", "4", "5", "6", "7", "8", "9" }

IsDigit(c) == c \in Digits

IsSpace(c) == c = " "

DigitValue(c) ==
  CASE c = "0" -> 0 [] c = "1" -> 1 [] c = "2" -> 2 [] c = "3" -> 3
    [] c = "4" -> 4 [] c = "5" -> 5 [] c = "6" -> 6 [] c = "7" -> 7
    [] c = "8" -> 8 [] c = "9" -> 9

RECURSIVE SkipSpaces(_)
SkipSpaces(s) ==
  IF s # Empty /\ IsSpace(Head(s)) THEN SkipSpaces(Tail(s)) ELSE s

\* Length of the longest prefix of s made of digits.
RECURSIVE DigitPrefixLen(_)
DigitPrefixLen(s) ==
  IF s # Empty /\ IsDigit(Head(s)) THEN 1 + DigitPrefixLen(Tail(s)) ELSE 0

RECURSIVE SkipLeadingZeros(_)
SkipLeadingZeros(s) ==
  IF s # Empty /\ Head(s) = "0" THEN SkipLeadingZeros(Tail(s)) ELSE s

\* The digits of s, most significant first, accumulated onto acc.
RECURSIVE DigitsTo(_, _)
DigitsTo(acc, s) ==
  IF s = Empty THEN acc ELSE DigitsTo(acc * 10 + DigitValue(Head(s)), Tail(s))

ParseError(e) == [ok |-> FALSE, value |-> U32(0, 0), error |-> e]

TryToUint32(str) ==
  LET b == SkipSpaces(str) IN
  IF b = Empty THEN ParseError("EMPTY_INPUT_STRING")
  ELSE IF ~IsDigit(Head(b)) THEN ParseError("NON_DIGIT_CHAR")
  ELSE
    LET n == DigitPrefixLen(b)
        d == SkipLeadingZeros(SubSeq(b, 1, n))
        rest == SubSeq(b, n + 1, Len(b))
        split == IF Len(d) > LowDigits THEN Len(d) - LowDigits ELSE 0
        hi == DigitsTo(0, SubSeq(d, 1, split))
        lo == DigitsTo(0, SubSeq(d, split + 1, Len(d)))
    IN  IF Len(d) > MaxDigits THEN ParseError("POSITIVE_OVERFLOW")
        ELSE IF hi > UINT32_MAX_HI \/ (hi = UINT32_MAX_HI /\ lo > UINT32_MAX_LO)
          THEN ParseError("POSITIVE_OVERFLOW")
        ELSE IF SkipSpaces(rest) # Empty THEN ParseError("NON_WHITESPACE_AFTER_END")
        ELSE [ok |-> TRUE, value |-> U32(hi, lo), error |-> ""]

(***************************************************************************)
(* The Scheduler behind scheduler_ (Scheduler.h): only what the handler    *)
(* calls.  resume() reports the running state the scheduler ends in, which *)
(* the scheduler decides.                                                  *)
(***************************************************************************)
SchedulerStates ==
  [ running : BOOLEAN, phase : PhaseNames,
    rps : Int32Samples, maxOutstanding : Int32Samples ]

\* The scheduler while nothing calls it.
QuietScheduler == CHOOSE s \in SchedulerStates : ~s.running

SchedulerPause(s) == [s EXCEPT !.running = FALSE]

SchedulerResume(s, nowRunning) == [s EXCEPT !.running = nowRunning]

SchedulerSetPhase(s, p) == [s EXCEPT !.phase = p]

SchedulerSetRps(s, rps) == [s EXCEPT !.rps = rps]

SchedulerSetMaxOutstandingRequests(s, n) == [s EXCEPT !.maxOutstanding = n]

\* One call the handler made on the scheduler.
SchedCall(fn, str, num) == [fn |-> fn, str |-> str, num |-> num]

(***************************************************************************)
(* The record of a completed call.                                         *)
(***************************************************************************)
NoRate == [running |-> FALSE, rps |-> 0, maxOutstanding |-> 0]

NoCall ==
  [ op |-> "none", key |-> 0, str |-> Empty, num |-> 0, req |-> NullRequest,
    outcome |-> "ok", retStr |-> Empty, retName |-> "", retNum |-> 0,
    u32 |-> [hi |-> 0, lo |-> 0], retU32 |-> [hi |-> 0, lo |-> 0],
    retBool |-> FALSE, retRate |-> NoRate, warned |-> FALSE, calls |-> << >> ]

NeverSet == [st |-> "never", val |-> Empty]

(***************************************************************************)
(* The globals of the bootstrap and the locals of the threads.             *)
(***************************************************************************)
\* An empty std::shared_ptr<TreadmillFB303>; handlers are numbered from 1.
NullInstance == 0

\* No thread holds the lock.
NoThread == 0

\* No ThriftServer made yet by the thread.
NoServer == [exists |-> FALSE, interface |-> NullInstance, started |-> FALSE]

NoThreadCall == [op |-> "none", key |-> 0, value |-> Empty]

NoResult == [outcome |-> "none", value |-> Empty]


(***************************************************************************)
(* The handler's methods as functions of the state they read.              *)
(***************************************************************************)
\* TreadmillFB303::TreadmillFB303 : status_(fb_status::STARTING)
InitialStatus == STARTING

\* TreadmillFB303::TreadmillFB303 : configuration_(make_unique<map>())
InitialConfiguration == EmptyMap

\* A setStatus that loses its write.
SetStatusResultDropped(cur, status) == cur

\* setStatus: status_ = status
SetStatusResult(cur, status) == status

\* getStatus: return status_
GetStatusResult(cur) == cur

\* getStatusDetails: _fb303_status_VALUES_TO_NAMES.at(getStatus())
GetStatusDetailsResult(cur) == StatusNames[GetStatusResult(cur)]

\* A pause that leaves the configuration as it is.
PauseResultKeepsStore(sched, m) ==
  [ scheduler |-> SchedulerPause(sched),
    configuration |-> m,
    ret |-> TRUE,
    calls |-> << SchedCall("pause", "", 0) >> ]

\* pause: scheduler_.pause(); configuration_->clear(); return true
PauseResult(sched, m) ==
  [ scheduler |-> SchedulerPause(sched),
    configuration |-> Clear(m),
    ret |-> TRUE,
    calls |-> << SchedCall("pause", "", 0) >> ]

\* resume: return scheduler_.resume()
ResumeResult(sched, nowRunning) ==
  [ scheduler |-> SchedulerResume(sched, nowRunning),
    ret |-> nowRunning,
    calls |-> << SchedCall("resume", "", 0) >> ]

\* A phase name taken from the request without the null check.
PhaseNameOfUnchecked(req) == req.phaseName

\* future_resume2: req != nullptr ? req->get_phaseName() : "UNKNOWN_PHASE"
PhaseNameOf(req) == IF ~req.null THEN req.phaseName ELSE "UNKNOWN_PHASE"

\* A resume2 that resumes the scheduler before it sets the phase.
Resume2ResultResumeFirst(sched, req, nowRunning) ==
  LET phaseName == PhaseNameOf(req)
      s1 == SchedulerResume(sched, nowRunning)
      running == s1.running
      s2 == SchedulerSetPhase(s1, phaseName)
  IN  [ scheduler |-> s2,
        success |-> running,
        calls |-> << SchedCall("resume", "", 0), SchedCall("setPhase", phaseName, 0) >> ]

\* future_resume2: setPhase(phaseName); running = resume(); set_success(running)
Resume2Result(sched, req, nowRunning) ==
  LET phaseName == PhaseNameOf(req)
      s1 == SchedulerSetPhase(sched, phaseName)
      s2 == SchedulerResume(s1, nowRunning)
      running == s2.running
  IN  [ scheduler |-> s2,
        success |-> running,
        calls |-> << SchedCall("setPhase", phaseName, 0), SchedCall("resume", "", 0) >> ]

\* setRps: scheduler_.setRps(rps)
SetRpsResult(sched, rps) ==
  [ scheduler |-> SchedulerSetRps(sched, rps),
    calls |-> << SchedCall("setRps", "", rps) >> ]

\* setMaxOutstanding: scheduler_.setMaxOutstandingRequests(max_outstanding)
SetMaxOutstandingResult(sched, n) ==
  [ scheduler |-> SchedulerSetMaxOutstandingRequests(sched, n),
    calls |-> << SchedCall("setMaxOutstandingRequests", "", n) >> ]

\* future_getRate: isRunning(), getRps(), getMaxOutstandingRequests()
GetRateResult(sched) ==
  [ running |-> sched.running, rps |-> sched.rps,
    maxOutstanding |-> sched.maxOutstanding ]

\* A future_getConfiguration that calls at() without the count() check.
GetConfigurationResultUnguarded(m, key) == At(m, key)

\* future_getConfiguration: the stored value when count(key) > 0, else ""
GetConfigurationResult(m, key) ==
  IF Count(m, key) > 0 THEN At(m, key) ELSE [outcome |-> "ok", value |-> Empty]

\* A setConfiguration that replaces the whole map by the one entry.
SetConfigurationResultOnlyEntry(m, key, value) == [x \in {key} |-> value]

\* A setConfiguration that appends to the value a key already has.
SetConfigurationResultAppends(m, key, value) ==
  IF key \in DOMAIN m
    THEN [m EXCEPT ![key] = @ \o value]
    ELSE Emplace(m, key, value)

\* setConfiguration: configuration_->emplace(*key, *value)
SetConfigurationResult(m, key, value) == Emplace(m, key, value)

\* A getConfigurationValue that yields 0, not the default, on a failed parse.
GetConfigurationValueUint32ZeroOnFailure(m, key, defaultValue) ==
  IF Count(m, key) > 0
    THEN LET result == TryToUint32(At(m, key).value) IN
         IF result.ok
           THEN [outcome |-> "ok", value |-> result.value, warned |-> FALSE]
           ELSE [outcome |-> "ok", value |-> U32(0, 0), warned |-> TRUE]
    ELSE [outcome |-> "ok", value |-> defaultValue, warned |-> FALSE]

\* getConfigurationValue(key, uint32_t defaultValue)
GetConfigurationValueUint32(m, key, defaultValue) ==
  IF Count(m, key) > 0
    THEN LET value == At(m, key) IN
         IF value.outcome # "ok"
           THEN [outcome |-> "throw", value |-> U32(0, 0), warned |-> FALSE]
         ELSE LET result == TryToUint32(value.value) IN
              IF result.ok
                THEN [outcome |-> "ok", value |-> result.value, warned |-> FALSE]
                ELSE [outcome |-> "ok", value |-> defaultValue, warned |-> TRUE]
    ELSE [outcome |-> "ok", value |-> defaultValue, warned |-> FALSE]

\* getConfigurationValue(key, const std::string& defaultValue)
GetConfigurationValueString(m, key, defaultValue) ==
  IF Count(m, key) > 0
    THEN At(m, key)
    ELSE [outcome |-> "ok", value |-> defaultValue]


(***************************************************************************)
(* The handler's methods as actions: one whole call each, made when no     *)
(* other call is running.                                                  *)
(***************************************************************************)
\* No instance yet, instance_mutex free, no thread inside the bootstrap.
InitBoot ==
  /\ instance = NullInstance
  /\ instance_mutex = [writer |-> NoThread, readers |-> {}]
  /\ handlers = 0
  /\ fatal = "none"
  /\ bpc = [t \in Threads |-> "idle"]
  /\ bop = [t \in Threads |-> "none"]
  /\ bret = [t \in Threads |-> NullInstance]
  /\ server = [t \in Threads |-> NoServer]
  /\ serving = 0
  /\ serve_thread = [t \in Threads |-> "none"]
  /\ server_thread = [t \in Threads |-> "empty"]
  /\ stopping = [t \in Threads |-> FALSE]

\* No worker thread inside a handler method.
InitThreads ==
  /\ pc = [t \in Threads |-> "idle"]
  /\ call = [t \in Threads |-> NoThreadCall]
  /\ ret = [t \in Threads |-> NoResult]
  /\ counted = [t \in Threads |-> 0]
  /\ access = [t \in Threads |-> "none"]
  /\ torn = [t \in Threads |-> FALSE]
  /\ made = [t \in Threads |-> 0]

\* A status method has returned nothing yet.
NoStatusResult == [num |-> InitialStatus, name |-> ""]

\* mutex_ as constructed, and no worker thread inside a status method.
InitWorkers ==
  /\ mutex_ = [writer |-> NoThread, readers |-> {}]
  /\ trail = [t \in Threads |-> << >>]
  /\ snap = [t \in Threads |-> InitialStatus]
  /\ sret = [t \in Threads |-> NoStatusResult]
  /\ seen = [t \in Threads |-> {}]
  /\ stale = [t \in Threads |-> {}]
  /\ written = {}

\* The handler as constructed.
InitHandler ==
  /\ status_ = InitialStatus
  /\ aliveSince_ \in TimeSamples
  /\ configuration_ = InitialConfiguration
  /\ last = NoCall
  /\ lastSet = [k \in Keys |-> NeverSet]
  /\ lastStatus = [set |-> FALSE, val |-> InitialStatus]

Init ==
  /\ InitHandler
  /\ scheduler_ \in SchedulerStates
  /\ InitBoot
  /\ InitThreads
  /\ InitWorkers

setStatus(status) ==
  /\ status_' = SetStatusResult(status_, status)
  /\ last' = [NoCall EXCEPT !.op = "setStatus", !.num = status]
  /\ lastStatus' = [set |-> TRUE, val |-> status]
  /\ UNCHANGED << aliveSince_, configuration_, scheduler_, lastSet >>
  /\ UNCHANGED << bootVars, threadVars, workerVars >>

getStatus ==
  /\ last' = [NoCall EXCEPT !.op = "getStatus", !.retNum = GetStatusResult(status_)]
  /\ UNCHANGED << status_, aliveSince_, configuration_, scheduler_, lastSet, lastStatus >>
  /\ UNCHANGED << bootVars, threadVars, workerVars >>

getStatusDetails ==
  /\ last' = [NoCall EXCEPT !.op = "getStatusDetails",
                            !.retName = GetStatusDetailsResult(status_)]
  /\ UNCHANGED << status_, aliveSince_, configuration_, scheduler_, lastSet, lastStatus >>
  /\ UNCHANGED << bootVars, threadVars, workerVars >>

aliveSince ==
  /\ last' = [NoCall EXCEPT !.op = "aliveSince", !.retNum = aliveSince_]
  /\ UNCHANGED << status_, aliveSince_, configuration_, scheduler_, lastSet, lastStatus >>
  /\ UNCHANGED << bootVars, threadVars, workerVars >>

pause ==
  LET r == PauseResult(scheduler_, configuration_) IN
  /\ scheduler_' = r.scheduler
  /\ configuration_' = r.configuration
  /\ last' = [NoCall EXCEPT !.op = "pause", !.retBool = r.ret, !.calls = r.calls]
  /\ lastSet' = [k \in Keys |->
                   IF lastSet[k].st = "never"
                     THEN NeverSet
                     ELSE [st |-> "cleared", val |-> Empty]]
  /\ UNCHANGED << status_, aliveSince_, lastStatus >>
  /\ UNCHANGED << bootVars, threadVars, workerVars >>

resume ==
  \E nowRunning \in BOOLEAN :
    LET r == ResumeResult(scheduler_, nowRunning) IN
    /\ scheduler_' = r.scheduler
    /\ last' = [NoCall EXCEPT !.op = "resume", !.retBool = r.ret, !.calls = r.calls]
    /\ UNCHANGED << status_, aliveSince_, configuration_, lastSet, lastStatus >>
    /\ UNCHANGED << bootVars, threadVars, workerVars >>

future_resume2(req) ==
  \E nowRunning \in BOOLEAN :
    LET r == Resume2Result(scheduler_, req, nowRunning) IN
    /\ scheduler_' = r.scheduler
    /\ last' = [NoCall EXCEPT !.op = "resume2", !.req = req,
                              !.retBool = r.success, !.calls = r.calls]
    /\ UNCHANGED << status_, aliveSince_, configuration_, lastSet, lastStatus >>
    /\ UNCHANGED << bootVars, threadVars, workerVars >>

setRps(rps) ==
  LET r == SetRpsResult(scheduler_, rps) IN
  /\ scheduler_' = r.scheduler
  /\ last' = [NoCall EXCEPT !.op = "setRps", !.num = rps, !.calls = r.calls]
  /\ UNCHANGED << status_, aliveSince_, configuration_, lastSet, lastStatus >>
  /\ UNCHANGED << bootVars, threadVars, workerVars >>

setMaxOutstanding(max_outstanding) ==
  LET r == SetMaxOutstandingResult(scheduler_, max_outstanding) IN
  /\ scheduler_' = r.scheduler
  /\ last' = [NoCall EXCEPT !.op = "setMaxOutstanding", !.num = max_outstanding,
                            !.calls = r.calls]
  /\ UNCHANGED << status_, aliveSince_, configuration_, lastSet, lastStatus >>
  /\ UNCHANGED << bootVars, threadVars, workerVars >>

future_getRate ==
  /\ last' = [NoCall EXCEPT !.op = "getRate", !.retRate = GetRateResult(scheduler_)]
  /\ UNCHANGED << status_, aliveSince_, configuration_, scheduler_, lastSet, lastStatus >>
  /\ UNCHANGED << bootVars, threadVars, workerVars >>

future_getConfiguration(key) ==
  LET r == GetConfigurationResult(configuration_, key) IN
  /\ last' = [NoCall EXCEPT !.op = "getConfiguration", !.key = key,
                            !.outcome = r.outcome, !.retStr = r.value]
  /\ UNCHANGED << status_, aliveSince_, configuration_, scheduler_, lastSet, lastStatus >>
  /\ UNCHANGED << bootVars, threadVars, workerVars >>

setConfiguration(key, value) ==
  /\ configuration_' = SetConfigurationResult(configuration_, key, value)
  /\ last' = [NoCall EXCEPT !.op = "setConfiguration", !.key = key, !.str = value]
  /\ lastSet' = [lastSet EXCEPT ![key] = [st |-> "set", val |-> value]]
  /\ UNCHANGED << status_, aliveSince_, scheduler_, lastStatus >>
  /\ UNCHANGED << bootVars, threadVars, workerVars >>

getConfigurationValueUint32(key, defaultValue) ==
  LET r == GetConfigurationValueUint32(configuration_, key, defaultValue) IN
  /\ last' = [NoCall EXCEPT !.op = "getConfigurationValueUint32", !.key = key,
                            !.u32 = defaultValue, !.outcome = r.outcome,
                            !.retU32 = r.value, !.warned = r.warned]
  /\ UNCHANGED << status_, aliveSince_, configuration_, scheduler_, lastSet, lastStatus >>
  /\ UNCHANGED << bootVars, threadVars, workerVars >>

getConfigurationValueString(key, defaultValue) ==
  LET r == GetConfigurationValueString(configuration_, key, defaultValue) IN
  /\ last' = [NoCall EXCEPT !.op = "getConfigurationValueString", !.key = key,
                            !.str = defaultValue, !.outcome = r.outcome,
                            !.retStr = r.value]
  /\ UNCHANGED << status_, aliveSince_, configuration_, scheduler_, lastSet, lastStatus >>
  /\ UNCHANGED << bootVars, threadVars, workerVars >>

\* Every method of the handler, called one call at a time.
Next ==
  \/ \E status \in StatusInputs : setStatus(status)
  \/ getStatus
  \/ getStatusDetails
  \/ aliveSince
  \/ pause
  \/ resume
  \/ \E req \in Requests : future_resume2(req)
  \/ \E rps \in Int32Samples : setRps(rps)
  \/ \E n \in Int32Samples : setMaxOutstanding(n)
  \/ future_getRate
  \/ \E key \in Keys : future_getConfiguration(key)
  \/ \E key \in Keys, value \in Values : setConfiguration(key, value)
  \/ \E key \in Keys, d \in UintDefaults : getConfigurationValueUint32(key, d)
  \/ \E key \in Keys, d \in StringDefaults : getConfigurationValueString(key, d)

Spec == Init /\ [][Next]_vars

\* The configuration store alone: a store holding any content that
\* setConfiguration calls can leave, one call per key, and its readers.
InitStore ==
  /\ status_ = InitialStatus
  /\ aliveSince_ \in TimeSamples
  /\ \E present \in SUBSET Keys :
       \E m \in [present -> NumericValues] :
         /\ configuration_ = m
         /\ lastSet = [k \in Keys |->
                         IF k \in present
                           THEN [st |-> "set", val |-> m[k]]
                           ELSE NeverSet]
  /\ scheduler_ \in SchedulerStates
  /\ last = NoCall
  /\ lastStatus = [set |-> FALSE, val |-> InitialStatus]
  /\ InitBoot
  /\ InitThreads
  /\ InitWorkers

NextStore ==
  \/ \E key \in Keys : future_getConfiguration(key)
  \/ \E key \in Keys, d \in StoreUintDefaults : getConfigurationValueUint32(key, d)
  \/ \E key \in Keys, d \in StoreStringDefaults : getConfigurationValueString(key, d)

SpecStore == InitStore /\ [][NextStore]_vars


(***************************************************************************)
(* The singleton bootstrap: make_fb303 and getGlobalTreadmillFB303, each   *)
(* thread one statement at a time.  LOG(FATAL) aborts the process: once    *)
(* fatal is set no thread takes another step.                              *)
(***************************************************************************)
\* folly::SharedMutex::ReadHolder: taken when no writer holds the mutex.
ReadHolder(m, t) ==
  [ can |-> m.writer = NoThread,
    held |-> [m EXCEPT !.readers = @ \cup {t}] ]

\* folly::SharedMutex::WriteHolder: taken when nobody holds the mutex.
WriteHolder(m, t) ==
  [ can |-> m.writer = NoThread /\ m.readers = {},
    held |-> [m EXCEPT !.writer = t] ]

\* The destructor of a holder.
ReleaseHolder(m, t) ==
  [m EXCEPT !.writer = IF @ = t THEN NoThread ELSE @, !.readers = @ \ {t}]

\* A make_fb303 that takes instance_mutex shared.
MakeGuardShared(m, t) == ReadHolder(m, t)

\* make_fb303: folly::SharedMutex::WriteHolder guard(instance_mutex)
MakeGuard(m, t) == WriteHolder(m, t)

\* getGlobalTreadmillFB303: folly::SharedMutex::ReadHolder guard(instance_mutex)
GetGlobalGuard(m, t) == ReadHolder(m, t)

\* A getGlobalTreadmillFB303 without the check of instance.
InstanceMissingUnchecked(inst) == FALSE

\* getGlobalTreadmillFB303: if (!instance)
InstanceMissing(inst) == inst = NullInstance

\* A make_fb303 without the check of instance.
InstanceAlreadySetUnchecked(inst) == FALSE

\* make_fb303: if (instance)
InstanceAlreadySet(inst) == inst # NullInstance

\* A thread calls make_fb303.
CallMake(t) ==
  /\ fatal = "none"
  /\ bpc[t] = "idle"
  /\ bop' = [bop EXCEPT ![t] = "make_fb303"]
  /\ bpc' = [bpc EXCEPT ![t] = "m_lock"]
  /\ bret' = [bret EXCEPT ![t] = NullInstance]
  /\ UNCHANGED << instance, instance_mutex, handlers, fatal, server, serving >>
  /\ UNCHANGED << handlerVars, threadVars, workerVars, serveVars >>

\* make_fb303: WriteHolder guard(instance_mutex)
MakeLock(t) ==
  /\ fatal = "none"
  /\ bpc[t] = "m_lock"
  /\ MakeGuard(instance_mutex, t).can
  /\ instance_mutex' = MakeGuard(instance_mutex, t).held
  /\ bpc' = [bpc EXCEPT ![t] = "m_check"]
  /\ UNCHANGED << instance, handlers, fatal, bop, bret, server, serving >>
  /\ UNCHANGED << handlerVars, threadVars, workerVars, serveVars >>

\* make_fb303: if (instance) LOG(FATAL)
MakeCheck(t) ==
  /\ fatal = "none"
  /\ bpc[t] = "m_check"
  /\ IF InstanceAlreadySet(instance)
       THEN fatal' = "already_set" /\ bpc' = bpc
       ELSE fatal' = fatal /\ bpc' = [bpc EXCEPT ![t] = "m_store"]
  /\ UNCHANGED << instance, instance_mutex, handlers, bop, bret, server, serving >>
  /\ UNCHANGED << handlerVars, threadVars, workerVars, serveVars >>

\* make_fb303: instance = std::make_shared<TreadmillFB303>(scheduler)
MakeStore(t) ==
  /\ fatal = "none"
  /\ bpc[t] = "m_store"
  /\ handlers' = handlers + 1
  /\ instance' = handlers + 1
  /\ bpc' = [bpc EXCEPT ![t] = "m_unlock"]
  /\ UNCHANGED << instance_mutex, fatal, bop, bret, server, serving >>
  /\ UNCHANGED << handlerVars, threadVars, workerVars, serveVars >>

\* make_fb303: the end of the block releases the WriteHolder
MakeUnlock(t) ==
  /\ fatal = "none"
  /\ bpc[t] = "m_unlock"
  /\ instance_mutex' = ReleaseHolder(instance_mutex, t)
  /\ bpc' = [bpc EXCEPT ![t] = "m_server"]
  /\ UNCHANGED << instance, handlers, fatal, bop, bret, server, serving >>
  /\ UNCHANGED << handlerVars, threadVars, workerVars, serveVars >>

\* make_fb303: server = make_shared<ThriftServer>(); setPort; then the call
\* of getGlobalTreadmillFB303 in the argument of setInterface
MakeServer(t) ==
  /\ fatal = "none"
  /\ bpc[t] = "m_server"
  /\ server' = [server EXCEPT ![t] =
                  [exists |-> TRUE, interface |-> NullInstance, started |-> FALSE]]
  /\ bpc' = [bpc EXCEPT ![t] = "g_lock"]
  /\ UNCHANGED << instance, instance_mutex, handlers, fatal, bop, bret, serving >>
  /\ UNCHANGED << handlerVars, threadVars, workerVars, serveVars >>

\* A thread calls getGlobalTreadmillFB303.
CallGetGlobal(t) ==
  /\ fatal = "none"
  /\ bpc[t] = "idle"
  /\ bop' = [bop EXCEPT ![t] = "getGlobalTreadmillFB303"]
  /\ bpc' = [bpc EXCEPT ![t] = "g_lock"]
  /\ bret' = [bret EXCEPT ![t] = NullInstance]
  /\ UNCHANGED << instance, instance_mutex, handlers, fatal, server, serving >>
  /\ UNCHANGED << handlerVars, threadVars, workerVars, serveVars >>

\* getGlobalTreadmillFB303: ReadHolder guard(instance_mutex)
GetGlobalLock(t) ==
  /\ fatal = "none"
  /\ bpc[t] = "g_lock"
  /\ GetGlobalGuard(instance_mutex, t).can
  /\ instance_mutex' = GetGlobalGuard(instance_mutex, t).held
  /\ bpc' = [bpc EXCEPT ![t] = "g_check"]
  /\ UNCHANGED << instance, handlers, fatal, bop, bret, server, serving >>
  /\ UNCHANGED << handlerVars, threadVars, workerVars, serveVars >>

\* getGlobalTreadmillFB303: if (!instance) LOG(FATAL); return instance
GetGlobalCheck(t) ==
  /\ fatal = "none"
  /\ bpc[t] = "g_check"
  /\ IF InstanceMissing(instance)
       THEN fatal' = "not_set" /\ bpc' = bpc /\ bret' = bret
       ELSE /\ fatal' = fatal
            /\ bret' = [bret EXCEPT ![t] = instance]
            /\ bpc' = [bpc EXCEPT ![t] = "g_unlock"]
  /\ UNCHANGED << instance, instance_mutex, handlers, bop, server, serving >>
  /\ UNCHANGED << handlerVars, threadVars, workerVars, serveVars >>

\* getGlobalTreadmillFB303: returning releases the ReadHolder
GetGlobalUnlock(t) ==
  /\ fatal = "none"
  /\ bpc[t] = "g_unlock"
  /\ instance_mutex' = ReleaseHolder(instance_mutex, t)
  /\ bpc' = [bpc EXCEPT ![t] =
               IF bop[t] = "make_fb303" THEN "m_bind" ELSE "g_done"]
  /\ UNCHANGED << instance, handlers, fatal, bop, bret, server, serving >>
  /\ UNCHANGED << handlerVars, threadVars, workerVars, serveVars >>

\* make_fb303: server->setInterface(<the pointer returned>)
MakeBind(t) ==
  /\ fatal = "none"
  /\ bpc[t] = "m_bind"
  /\ server' = [server EXCEPT ![t].interface = bret[t]]
  /\ bpc' = [bpc EXCEPT ![t] = "m_start"]
  /\ UNCHANGED << instance, instance_mutex, handlers, fatal, bop, bret, serving >>
  /\ UNCHANGED << handlerVars, threadVars, workerVars, serveVars >>

\* make_fb303: server_thread.reset(new std::thread([server] { server->serve(); }), ...)
MakeStart(t) ==
  /\ fatal = "none"
  /\ bpc[t] = "m_start"
  /\ server' = [server EXCEPT ![t].started = TRUE]
  /\ serving' = serving + 1
  /\ serve_thread' = [serve_thread EXCEPT ![t] = "started"]
  /\ server_thread' = [server_thread EXCEPT ![t] = "owning"]
  /\ bpc' = [bpc EXCEPT ![t] = "m_done"]
  /\ UNCHANGED << instance, instance_mutex, handlers, fatal, bop, bret, stopping >>
  /\ UNCHANGED << handlerVars, threadVars, workerVars >>

\* The call returns to its caller.
BootReturn(t) ==
  /\ fatal = "none"
  /\ bpc[t] \in { "m_done", "g_done" }
  /\ bpc' = [bpc EXCEPT ![t] = "idle"]
  /\ bop' = [bop EXCEPT ![t] = "none"]
  /\ bret' = [bret EXCEPT ![t] = NullInstance]
  /\ UNCHANGED << instance, instance_mutex, handlers, fatal, server, serving >>
  /\ UNCHANGED << handlerVars, threadVars, workerVars, serveVars >>

NextBoot ==
  \E t \in Threads :
    \/ CallMake(t)
    \/ MakeLock(t)
    \/ MakeCheck(t)
    \/ MakeStore(t)
    \/ MakeUnlock(t)
    \/ MakeServer(t)
    \/ CallGetGlobal(t)
    \/ GetGlobalLock(t)
    \/ GetGlobalCheck(t)
    \/ GetGlobalUnlock(t)
    \/ MakeBind(t)
    \/ MakeStart(t)
    \/ BootReturn(t)

\* The bootstrap with the handler's members left as constructed.
InitQuiet ==
  /\ InitHandler
  /\ scheduler_ = QuietScheduler
  /\ InitBoot
  /\ InitThreads
  /\ InitWorkers

SpecBoot == InitQuiet /\ [][NextBoot]_vars

(***************************************************************************)
(* The serving thread and the server_thread handle of make_fb303.  The     *)
(* thread runs server->serve(); the deleter of the handle runs             *)
(* server->stop(), t->join() and delete t.  ThriftServer::serve sets up    *)
(* the server's event base and then loops on it until the loop is told to  *)
(* terminate; ThriftServer::stop tells the event base of a server that has *)
(* been set up to terminate its loop, and does nothing to a server whose   *)
(* serve() has not set it up yet.                                          *)
(***************************************************************************)
\* ThriftServer::stop: whether the server's loop is told to terminate.
StopResult(threadState, told) ==
  IF threadState \in { "setup", "looping" } THEN TRUE ELSE told

\* The serving thread enters server->serve(), which sets the server up.
ServeSetup(t) ==
  /\ fatal = "none"
  /\ serve_thread[t] = "started"
  /\ serve_thread' = [serve_thread EXCEPT ![t] = "setup"]
  /\ UNCHANGED << instance, instance_mutex, handlers, fatal, bpc, bop, bret,
                  server, serving, server_thread, stopping >>
  /\ UNCHANGED << handlerVars, threadVars, workerVars >>

\* server->serve() enters its event loop.
ServeLoop(t) ==
  /\ fatal = "none"
  /\ serve_thread[t] = "setup"
  /\ serve_thread' = [serve_thread EXCEPT ![t] = "looping"]
  /\ UNCHANGED << instance, instance_mutex, handlers, fatal, bpc, bop, bret,
                  server, serving, server_thread, stopping >>
  /\ UNCHANGED << handlerVars, threadVars, workerVars >>

\* The event loop was told to terminate: server->serve() returns and the
\* thread ends.
ServeReturn(t) ==
  /\ fatal = "none"
  /\ serve_thread[t] = "looping"
  /\ stopping[t]
  /\ serve_thread' = [serve_thread EXCEPT ![t] = "returned"]
  /\ UNCHANGED << instance, instance_mutex, handlers, fatal, bpc, bop, bret,
                  server, serving, server_thread, stopping >>
  /\ UNCHANGED << handlerVars, threadVars, workerVars >>

\* The owner lets go of the handle it got from make_fb303; the deleter
\* runs server->stop().
TeardownStop(t) ==
  /\ fatal = "none"
  /\ bpc[t] = "idle"
  /\ server_thread[t] = "owning"
  /\ stopping' = [stopping EXCEPT ![t] = StopResult(serve_thread[t], @)]
  /\ server_thread' = [server_thread EXCEPT ![t] = "joining"]
  /\ UNCHANGED << instance, instance_mutex, handlers, fatal, bpc, bop, bret,
                  server, serving, serve_thread >>
  /\ UNCHANGED << handlerVars, threadVars, workerVars >>

\* The deleter: t->join() returns once the thread has ended; delete t.
TeardownJoin(t) ==
  /\ fatal = "none"
  /\ server_thread[t] = "joining"
  /\ serve_thread[t] = "returned"
  /\ server_thread' = [server_thread EXCEPT ![t] = "deleted"]
  /\ UNCHANGED << instance, instance_mutex, handlers, fatal, bpc, bop, bret,
                  server, serving, serve_thread, stopping >>
  /\ UNCHANGED << handlerVars, threadVars, workerVars >>

\* The bootstrap, the serving thread it starts and the teardown of the
\* handle it returns.
NextTeardown ==
  \/ NextBoot
  \/ \E t \in Threads :
       \/ ServeSetup(t)
       \/ ServeLoop(t)
       \/ ServeReturn(t)
       \/ TeardownStop(t)
       \/ TeardownJoin(t)

\* A started thread keeps running, and a join returns once it can; when the
\* owner lets go of the handle is up to the owner.
FairTeardown ==
  \A t \in Threads :
    /\ WF_vars(ServeSetup(t))
    /\ WF_vars(ServeLoop(t))
    /\ WF_vars(ServeReturn(t))
    /\ WF_vars(TeardownJoin(t))

SpecTeardown == InitQuiet /\ [][NextTeardown]_vars /\ FairTeardown

(***************************************************************************)
(* The configuration methods run by concurrent worker threads, one         *)
(* std::map member call at a time.  configuration_ is guarded by no lock:  *)
(* a member call that modifies the map while another thread is inside a    *)
(* member call of the same map is a data race, after which the racing      *)
(* calls may leave any map and return any result.                          *)
(***************************************************************************)
\* Every content a map over the model's keys and values can have.
AnyStore == UNION { [present -> Values] : present \in SUBSET Keys }

\* Every result a racing read of the map can produce.
AnyLookup ==
  { [outcome |-> "ok", value |-> v] : v \in Values \cup { Empty } }
    \cup { [outcome |-> "throw", value |-> Empty] }

\* The threads whose running member call conflicts with a call of this mode.
Conflicting(t, mode) ==
  { u \in Threads \ {t} :
      /\ access[u] # "none"
      /\ (mode = "write" \/ access[u] = "write") }

\* A thread enters a member function of the map.
EnterMap(t, mode) ==
  /\ access' = [access EXCEPT ![t] = mode]
  /\ torn' = [u \in Threads |->
                IF u = t THEN Conflicting(t, mode) # {}
                ELSE torn[u] \/ u \in Conflicting(t, mode)]

\* A thread leaves the member function it is inside.
LeaveMap(t) ==
  /\ access' = [access EXCEPT ![t] = "none"]
  /\ torn' = [torn EXCEPT ![t] = FALSE]

\* A worker thread is handed a setConfiguration request.
StartSetConfiguration(t, key, value) ==
  /\ pc[t] = "idle"
  /\ pc' = [pc EXCEPT ![t] = "set"]
  /\ call' = [call EXCEPT ![t] = [op |-> "setConfiguration", key |-> key, value |-> value]]
  /\ ret' = [ret EXCEPT ![t] = NoResult]
  /\ UNCHANGED << counted, access, torn, made >>
  /\ UNCHANGED << handlerVars, bootVars, workerVars >>

\* setConfiguration: entering configuration_->emplace(*key, *value)
EnterEmplace(t) ==
  /\ pc[t] = "set"
  /\ EnterMap(t, "write")
  /\ pc' = [pc EXCEPT ![t] = "in_emplace"]
  /\ UNCHANGED << call, ret, counted, made >>
  /\ UNCHANGED << handlerVars, bootVars, workerVars >>

\* setConfiguration: emplace returns, and so does the method
LeaveEmplace(t) ==
  /\ pc[t] = "in_emplace"
  /\ IF torn[t]
       THEN configuration_' \in AnyStore
       ELSE configuration_' =
              SetConfigurationResult(configuration_, call[t].key, call[t].value)
  /\ LeaveMap(t)
  /\ lastSet' = [lastSet EXCEPT ![call[t].key] = [st |-> "set", val |-> call[t].value]]
  /\ ret' = [ret EXCEPT ![t] = [outcome |-> "ok", value |-> Empty]]
  /\ pc' = [pc EXCEPT ![t] = "done"]
  /\ UNCHANGED << call, counted, made >>
  /\ UNCHANGED << status_, aliveSince_, scheduler_, last, lastStatus, bootVars, workerVars >>

\* pause, statement by statement.
PauseStepsClearFirst == << "configuration_->clear", "scheduler_.pause" >>

\* pause: scheduler_.pause(); configuration_->clear(); return true
PauseSteps == << "scheduler_.pause", "configuration_->clear" >>

\* The statement of pause a thread inside pause runs next.
NextPauseStep(t) ==
  IF Len(trail[t]) < Len(PauseSteps)
    THEN PauseSteps[Len(trail[t]) + 1]
    ELSE "return"

\* The threads inside pause.
InPause == { t \in Threads : pc[t] \in { "pause", "in_clear" } }

\* History: the values set for a key before the scheduler_.pause() of a pause
\* that has not cleared the store yet.
PausedOver(key) ==
  IF lastSet[key].st = "paused" THEN { lastSet[key].val } ELSE {}

\* A worker thread is handed a pause request.
StartPause(t) ==
  /\ pc[t] = "idle"
  /\ pc' = [pc EXCEPT ![t] = "pause"]
  /\ call' = [call EXCEPT ![t] = [op |-> "pause", key |-> 0, value |-> Empty]]
  /\ ret' = [ret EXCEPT ![t] = NoResult]
  /\ trail' = [trail EXCEPT ![t] = << >>]
  /\ UNCHANGED << counted, access, torn, made >>
  /\ UNCHANGED << mutex_, snap, sret, seen, stale, written >>
  /\ UNCHANGED << handlerVars, bootVars >>

\* pause: scheduler_.pause()
PauseScheduler(t) ==
  /\ pc[t] = "pause"
  /\ NextPauseStep(t) = "scheduler_.pause"
  /\ scheduler_' = SchedulerPause(scheduler_)
  /\ trail' = [trail EXCEPT ![t] = Append(@, "scheduler_.pause")]
  /\ lastSet' = [k \in Keys |->
                   IF lastSet[k].st = "set" THEN [lastSet[k] EXCEPT !.st = "paused"]
                   ELSE lastSet[k]]
  /\ UNCHANGED << status_, aliveSince_, configuration_, last, lastStatus >>
  /\ UNCHANGED << mutex_, snap, sret, seen, stale, written >>
  /\ UNCHANGED << bootVars, threadVars >>

\* pause: entering configuration_->clear()
EnterClear(t) ==
  /\ pc[t] = "pause"
  /\ NextPauseStep(t) = "configuration_->clear"
  /\ EnterMap(t, "write")
  /\ pc' = [pc EXCEPT ![t] = "in_clear"]
  /\ UNCHANGED << call, ret, counted, made >>
  /\ UNCHANGED << handlerVars, bootVars, workerVars >>

\* pause: clear returns
LeaveClear(t) ==
  /\ pc[t] = "in_clear"
  /\ IF torn[t]
       THEN configuration_' \in AnyStore
       ELSE configuration_' = Clear(configuration_)
  /\ LeaveMap(t)
  /\ lastSet' = [k \in Keys |->
                   IF lastSet[k].st = "never" THEN lastSet[k]
                   ELSE [st |-> "cleared", val |-> Empty]]
  /\ trail' = [trail EXCEPT ![t] = Append(@, "configuration_->clear")]
  /\ pc' = [pc EXCEPT ![t] = "pause"]
  /\ UNCHANGED << call, ret, counted, made >>
  /\ UNCHANGED << status_, aliveSince_, scheduler_, last, lastStatus >>
  /\ UNCHANGED << mutex_, snap, sret, seen, stale, written >>
  /\ UNCHANGED bootVars

\* pause: return true
ReturnPause(t) ==
  /\ pc[t] = "pause"
  /\ NextPauseStep(t) = "return"
  /\ ret' = [ret EXCEPT ![t] = [outcome |-> "ok", value |-> Empty]]
  /\ pc' = [pc EXCEPT ![t] = "done"]
  /\ UNCHANGED << call, counted, access, torn, made >>
  /\ UNCHANGED << handlerVars, bootVars, workerVars >>

\* A worker thread is handed a getConfiguration request.
StartGetConfiguration(t, key) ==
  /\ pc[t] = "idle"
  /\ pc' = [pc EXCEPT ![t] = "get"]
  /\ call' = [call EXCEPT ![t] = [op |-> "getConfiguration", key |-> key, value |-> Empty]]
  /\ ret' = [ret EXCEPT ![t] = NoResult]
  /\ stale' = [stale EXCEPT ![t] = PausedOver(key)]
  /\ UNCHANGED << counted, access, torn, made >>
  /\ UNCHANGED << mutex_, trail, snap, sret, seen, written >>
  /\ UNCHANGED << handlerVars, bootVars >>

\* future_getConfiguration: entering configuration_->count(*key)
EnterCount(t) ==
  /\ pc[t] = "get"
  /\ EnterMap(t, "read")
  /\ pc' = [pc EXCEPT ![t] = "in_count"]
  /\ UNCHANGED << call, ret, counted, made >>
  /\ UNCHANGED << handlerVars, bootVars, workerVars >>

\* future_getConfiguration: count returns
LeaveCount(t) ==
  /\ pc[t] = "in_count"
  /\ IF torn[t]
       THEN \E c \in {0, 1} : counted' = [counted EXCEPT ![t] = c]
       ELSE counted' = [counted EXCEPT ![t] = Count(configuration_, call[t].key)]
  /\ LeaveMap(t)
  /\ pc' = [pc EXCEPT ![t] = "counted"]
  /\ UNCHANGED << call, ret, made >>
  /\ UNCHANGED << handlerVars, bootVars, workerVars >>

\* future_getConfiguration: count(*key) > 0, entering configuration_->at(*key)
EnterAt(t) ==
  /\ pc[t] = "counted"
  /\ counted[t] > 0
  /\ EnterMap(t, "read")
  /\ pc' = [pc EXCEPT ![t] = "in_at"]
  /\ UNCHANGED << call, ret, counted, made >>
  /\ UNCHANGED << handlerVars, bootVars, workerVars >>

\* future_getConfiguration: at returns (or throws), and so does the method
LeaveAt(t) ==
  /\ pc[t] = "in_at"
  /\ IF torn[t]
       THEN \E r \in AnyLookup : ret' = [ret EXCEPT ![t] = r]
       ELSE ret' = [ret EXCEPT ![t] = At(configuration_, call[t].key)]
  /\ LeaveMap(t)
  /\ pc' = [pc EXCEPT ![t] = "done"]
  /\ UNCHANGED << call, counted, made >>
  /\ UNCHANGED << handlerVars, bootVars, workerVars >>

\* future_getConfiguration: count(*key) == 0, the method returns ""
ReturnEmpty(t) ==
  /\ pc[t] = "counted"
  /\ counted[t] = 0
  /\ ret' = [ret EXCEPT ![t] = [outcome |-> "ok", value |-> Empty]]
  /\ pc' = [pc EXCEPT ![t] = "done"]
  /\ UNCHANGED << call, counted, access, torn, made >>
  /\ UNCHANGED << handlerVars, bootVars, workerVars >>

\* The response is sent; the worker thread is free again.
ThreadReturn(t) ==
  /\ pc[t] = "done"
  /\ pc' = [pc EXCEPT ![t] = "idle"]
  /\ call' = [call EXCEPT ![t] = NoThreadCall]
  /\ ret' = [ret EXCEPT ![t] = NoResult]
  /\ counted' = [counted EXCEPT ![t] = 0]
  /\ made' = [made EXCEPT ![t] = IF @ < MaxMade THEN @ + 1 ELSE @]
  /\ trail' = [trail EXCEPT ![t] = << >>]
  /\ stale' = [stale EXCEPT ![t] = {}]
  /\ snap' = [snap EXCEPT ![t] = InitialStatus]
  /\ sret' = [sret EXCEPT ![t] = NoStatusResult]
  /\ seen' = [seen EXCEPT ![t] = {}]
  /\ UNCHANGED << access, torn >>
  /\ UNCHANGED << mutex_, written >>
  /\ UNCHANGED << handlerVars, bootVars >>

\* One setConfiguration per thread, each on a key of its own, all running
\* concurrently; once all have returned, one getConfiguration per thread for
\* the key it set.
NextSetsThenGets ==
  \E t \in Threads :
    \/ \E value \in Values :
         /\ made[t] = 0
         /\ t \in Keys
         /\ StartSetConfiguration(t, t, value)
    \/ EnterEmplace(t)
    \/ LeaveEmplace(t)
    \/ /\ made[t] = 1
       /\ \A u \in Threads : made[u] >= 1
       /\ StartGetConfiguration(t, t)
    \/ EnterCount(t)
    \/ LeaveCount(t)
    \/ EnterAt(t)
    \/ LeaveAt(t)
    \/ ReturnEmpty(t)
    \/ ThreadReturn(t)

SpecSetsThenGets == InitQuiet /\ [][NextSetsThenGets]_vars

\* Worker threads serving setConfiguration, getConfiguration and pause
\* requests in any order and any interleaving, MaxMade requests per thread.
NextConfig ==
  \E t \in Threads :
    \/ /\ made[t] < MaxMade
       /\ \/ \E key \in Keys, value \in Values : StartSetConfiguration(t, key, value)
          \/ \E key \in Keys : StartGetConfiguration(t, key)
          \/ StartPause(t)
    \/ EnterEmplace(t)
    \/ LeaveEmplace(t)
    \/ EnterCount(t)
    \/ LeaveCount(t)
    \/ EnterAt(t)
    \/ LeaveAt(t)
    \/ ReturnEmpty(t)
    \/ PauseScheduler(t)
    \/ EnterClear(t)
    \/ LeaveClear(t)
    \/ ReturnPause(t)
    \/ ThreadReturn(t)

SpecConfig == InitQuiet /\ [][NextConfig]_vars

\* A scheduler that is sending requests.
BusyScheduler == CHOOSE s \in SchedulerStates : s.running

\* A handler whose store holds entries set earlier, and idle worker threads.
InitFilled ==
  /\ status_ = InitialStatus
  /\ aliveSince_ \in TimeSamples
  /\ configuration_ \in AnyStore
  /\ last = NoCall
  /\ lastSet = [k \in Keys |->
                  IF k \in DOMAIN configuration_
                    THEN [st |-> "set", val |-> configuration_[k]]
                    ELSE NeverSet]
  /\ lastStatus = [set |-> FALSE, val |-> InitialStatus]
  /\ scheduler_ = BusyScheduler
  /\ InitBoot
  /\ InitThreads
  /\ InitWorkers

\* Worker threads serving one pause request each, in any interleaving.
NextPauses ==
  \E t \in Threads :
    \/ /\ made[t] = 0
       /\ StartPause(t)
    \/ PauseScheduler(t)
    \/ EnterClear(t)
    \/ LeaveClear(t)
    \/ ReturnPause(t)
    \/ ThreadReturn(t)

SpecPauses == InitFilled /\ [][NextPauses]_vars

(***************************************************************************)
(* The status methods run by concurrent worker threads, one statement at a *)
(* time.  status_ is a plain enum member: a write of it that overlaps      *)
(* another access of it is a data race, after which the write may leave    *)
(* and the read may return any value of the type.                          *)
(***************************************************************************)
\* A setStatus that takes mutex_ shared.
SetStatusGuardShared(m, t) == ReadHolder(m, t)

\* setStatus: folly::SharedMutex::WriteHolder guard(mutex_)
SetStatusGuard(m, t) == WriteHolder(m, t)

\* A getStatus that takes no lock.
GetStatusGuardNone(m, t) == [can |-> TRUE, held |-> m]

\* getStatus: folly::SharedMutex::ReadHolder guard(mutex_)
GetStatusGuard(m, t) == ReadHolder(m, t)

\* aliveSince: folly::SharedMutex::ReadHolder guard(mutex_)
AliveSinceGuard(m, t) == ReadHolder(m, t)

\* The threads inside a status method.
InStatusCall == { t \in Threads : pc[t] \in { "s_lock", "s_write", "s_in_write",
                                               "s_unlock", "g_lock", "g_read",
                                               "g_in_read", "g_unlock", "d_at",
                                               "a_lock", "a_read", "a_unlock" } }

\* A worker thread is handed a status request.
StartStatusCall(t, op, first, status) ==
  /\ pc[t] = "idle"
  /\ pc' = [pc EXCEPT ![t] = first]
  /\ call' = [call EXCEPT ![t] = [op |-> op, key |-> 0, value |-> Empty]]
  /\ snap' = [snap EXCEPT ![t] = status]
  /\ sret' = [sret EXCEPT ![t] = NoStatusResult]
  /\ seen' = [seen EXCEPT ![t] = { status_ }]
  /\ trail' = [trail EXCEPT ![t] = << >>]
  /\ UNCHANGED << ret, counted, access, torn, made >>
  /\ UNCHANGED << mutex_, stale >>
  /\ UNCHANGED << handlerVars, bootVars >>

StartSetStatus(t, status) ==
  /\ StartStatusCall(t, "setStatus", "s_lock", status)
  /\ written' = written \cup { status }

StartGetStatus(t) ==
  /\ StartStatusCall(t, "getStatus", "g_lock", InitialStatus)
  /\ UNCHANGED written

StartGetStatusDetails(t) ==
  /\ StartStatusCall(t, "getStatusDetails", "g_lock", InitialStatus)
  /\ UNCHANGED written

StartAliveSince(t) ==
  /\ StartStatusCall(t, "aliveSince", "a_lock", InitialStatus)
  /\ UNCHANGED written

\* A thread takes mutex_ with the given holder, waiting until it can.
TakeMutex(t, at, holder, then) ==
  /\ pc[t] = at
  /\ holder.can
  /\ mutex_' = holder.held
  /\ pc' = [pc EXCEPT ![t] = then]
  /\ UNCHANGED << call, ret, counted, access, torn, made >>
  /\ UNCHANGED << trail, snap, sret, seen, stale, written >>
  /\ UNCHANGED << handlerVars, bootVars >>

\* A thread begins an access of status_.
BeginStatusAccess(t, at, mode, then) ==
  /\ pc[t] = at
  /\ EnterMap(t, mode)
  /\ pc' = [pc EXCEPT ![t] = then]
  /\ UNCHANGED << call, ret, counted, made >>
  /\ UNCHANGED << handlerVars, bootVars, workerVars >>

\* setStatus: WriteHolder guard(mutex_)
SetStatusLock(t) == TakeMutex(t, "s_lock", SetStatusGuard(mutex_, t), "s_write")

\* setStatus: status_ = status begins
SetStatusBeginWrite(t) == BeginStatusAccess(t, "s_write", "write", "s_in_write")

\* setStatus: status_ = status ends
SetStatusEndWrite(t) ==
  /\ pc[t] = "s_in_write"
  /\ IF torn[t]
       THEN status_' \in Status
       ELSE status_' = SetStatusResult(status_, snap[t])
  /\ LeaveMap(t)
  /\ seen' = [u \in Threads |->
                IF u \in InStatusCall THEN seen[u] \cup { status_' } ELSE seen[u]]
  /\ trail' = [trail EXCEPT ![t] = Append(@, "status_ =")]
  /\ pc' = [pc EXCEPT ![t] = "s_unlock"]
  /\ UNCHANGED << call, ret, counted, made >>
  /\ UNCHANGED << aliveSince_, configuration_, scheduler_, last, lastSet, lastStatus >>
  /\ UNCHANGED << mutex_, snap, sret, stale, written >>
  /\ UNCHANGED bootVars

\* A thread's holder is destroyed and its method returns.
ReleaseMutex(t, at, then, result) ==
  /\ pc[t] = at
  /\ mutex_' = ReleaseHolder(mutex_, t)
  /\ sret' = [sret EXCEPT ![t] = result]
  /\ pc' = [pc EXCEPT ![t] = then]
  /\ UNCHANGED << call, ret, counted, access, torn, made >>
  /\ UNCHANGED << trail, snap, seen, stale, written >>
  /\ UNCHANGED << handlerVars, bootVars >>

\* setStatus: the guard is destroyed, the method returns
SetStatusUnlock(t) == ReleaseMutex(t, "s_unlock", "done", NoStatusResult)

\* getStatus: ReadHolder guard(mutex_)
GetStatusLock(t) == TakeMutex(t, "g_lock", GetStatusGuard(mutex_, t), "g_read")

\* getStatus: the read of status_ begins
GetStatusBeginRead(t) == BeginStatusAccess(t, "g_read", "read", "g_in_read")

\* getStatus: the read of status_ ends, its value is the return value
GetStatusEndRead(t) ==
  /\ pc[t] = "g_in_read"
  /\ IF torn[t]
       THEN \E s \in Status : snap' = [snap EXCEPT ![t] = s]
       ELSE snap' = [snap EXCEPT ![t] = GetStatusResult(status_)]
  /\ LeaveMap(t)
  /\ trail' = [trail EXCEPT ![t] = Append(@, "return status_")]
  /\ pc' = [pc EXCEPT ![t] = "g_unlock"]
  /\ UNCHANGED << call, ret, counted, made >>
  /\ UNCHANGED << mutex_, sret, seen, stale, written >>
  /\ UNCHANGED << handlerVars, bootVars >>

\* getStatus: the guard is destroyed, the method returns to its caller: the
\* RPC layer, or getStatusDetails
GetStatusUnlock(t) ==
  IF call[t].op = "getStatusDetails"
    THEN ReleaseMutex(t, "g_unlock", "d_at", NoStatusResult)
    ELSE ReleaseMutex(t, "g_unlock", "done", [NoStatusResult EXCEPT !.num = snap[t]])

\* getStatusDetails: _return = _fb303_status_VALUES_TO_NAMES.at(getStatus())
StatusDetailsAt(t) ==
  /\ pc[t] = "d_at"
  /\ sret' = [sret EXCEPT ![t] = [num |-> snap[t],
                                  name |-> GetStatusDetailsResult(snap[t])]]
  /\ pc' = [pc EXCEPT ![t] = "done"]
  /\ UNCHANGED << call, ret, counted, access, torn, made >>
  /\ UNCHANGED << mutex_, trail, snap, seen, stale, written >>
  /\ UNCHANGED << handlerVars, bootVars >>

\* aliveSince: ReadHolder guard(mutex_)
AliveSinceLock(t) == TakeMutex(t, "a_lock", AliveSinceGuard(mutex_, t), "a_unlock")

\* aliveSince: return aliveSince_; the guard is destroyed
AliveSinceUnlock(t) ==
  ReleaseMutex(t, "a_unlock", "done", [NoStatusResult EXCEPT !.num = aliveSince_])

\* Worker threads serving one setStatus, getStatus, getStatusDetails or
\* aliveSince request each, in any interleaving.
NextStatus ==
  \E t \in Threads :
    \/ /\ made[t] = 0
       /\ \/ \E status \in StatusInputs : StartSetStatus(t, status)
          \/ StartGetStatus(t)
          \/ StartGetStatusDetails(t)
          \/ StartAliveSince(t)
    \/ SetStatusLock(t)
    \/ SetStatusBeginWrite(t)
    \/ SetStatusEndWrite(t)
    \/ SetStatusUnlock(t)
    \/ GetStatusLock(t)
    \/ GetStatusBeginRead(t)
    \/ GetStatusEndRead(t)
    \/ GetStatusUnlock(t)
    \/ StatusDetailsAt(t)
    \/ AliveSinceLock(t)
    \/ AliveSinceUnlock(t)
    \/ ThreadReturn(t)

SpecStatus == InitQuiet /\ [][NextStatus]_vars

(***************************************************************************)
(* Properties of the handler, one call at a time.                          *)
(***************************************************************************)

\* C1: a getConfiguration(k) that follows a setConfiguration(k, v), with no
\* pause in between, returns v, whatever was set for k before.
C1_SetThenGetReturnsValue ==
  (last.op = "getConfiguration" /\ lastSet[last.key].st = "set")
    => (last.outcome = "ok" /\ last.retStr = lastSet[last.key].val)

\* C2: pause returns true; right after it getConfiguration returns "" for
\* every key, and a getConfiguration of a key set before the pause and not
\* since returns "".
C2_PauseReturnsTrueAndClears ==
  /\ last.op = "pause" =>
       /\ last.retBool = TRUE
       /\ \A k \in Keys :
            GetConfigurationResult(configuration_, k)
              = [outcome |-> "ok", value |-> Empty]
  /\ (last.op = "getConfiguration" /\ lastSet[last.key].st = "cleared") =>
       (last.outcome = "ok" /\ last.retStr = Empty)

C2_Witness ==
  /\ last.op = "getConfiguration"
  /\ lastSet[last.key].st = "cleared"
  /\ last.retStr = Empty

\* C3: getConfiguration of a key never set, or not set since the last pause,
\* returns "" normally and leaves the store as it was, without the key.
C3_UnsetKeyReadsEmpty ==
  [][ (last'.op = "getConfiguration" /\ lastSet[last'.key].st # "set") =>
        /\ last'.outcome = "ok"
        /\ last'.retStr = Empty
        /\ configuration_' = configuration_
        /\ last'.key \notin DOMAIN configuration_' ]_vars

C3_Witness ==
  /\ last.op = "getConfiguration"
  /\ lastSet[last.key].st = "never"
  /\ last.outcome = "ok"
  /\ last.retStr = Empty
  /\ last.key \notin DOMAIN configuration_
  /\ DOMAIN configuration_ # {}

\* C4: getStatus returns STARTING until the first setStatus and afterwards
\* the argument of the latest setStatus; no other call changes the status.
C4_StatusFollowsSetStatus ==
  /\ [](last.op = "getStatus" =>
          last.retNum = IF lastStatus.set THEN lastStatus.val ELSE STARTING)
  /\ [][status_' # status_ => last'.op = "setStatus"]_vars

C4_Witness ==
  /\ last.op = "getStatus"
  /\ lastStatus.set
  /\ lastStatus.val = STOPPING
  /\ last.retNum = STOPPING
  /\ DOMAIN configuration_ # {}
  /\ ~scheduler_.running

\* The uint32 value of each stored string that is a number in range.
C5_Parsed ==
  [ v \in { <<"4", "2">>,
            <<"4", "2", "9", "4", "9", "6", "7", "2", "9", "5">>,
            <<" ", "0", "7", " ">> } |->
      CASE v = <<"4", "2">> -> U32(0, 42)
        [] v = <<"4", "2", "9", "4", "9", "6", "7", "2", "9", "5">> -> U32(42949, 67295)
        [] v = <<" ", "0", "7", " ">> -> U32(0, 7) ]

\* The stored strings that are no uint32: empty, text, out of range, signed.
C5_Unparsable ==
  { Empty, <<"a", "b", "c">>, <<"4", "x">>, <<"-", "1">>,
    <<"4", "2", "9", "4", "9", "6", "7", "2", "9", "6">> }

\* C5: getConfigurationValue(key, uint32 default) returns the number stored
\* for key when it is a uint32, the default when the key is absent or the
\* stored string is no uint32, and leaves the store unchanged.
C5_NumericValueOrDefault ==
  /\ [](last.op = "getConfigurationValueUint32" =>
          /\ last.outcome = "ok"
          /\ last.key \notin DOMAIN configuration_ =>
               (last.retU32 = last.u32 /\ ~last.warned)
          /\ last.key \in DOMAIN configuration_ =>
               LET stored == configuration_[last.key] IN
               /\ stored \in C5_Unparsable \cup DOMAIN C5_Parsed
               /\ stored \in DOMAIN C5_Parsed => last.retU32 = C5_Parsed[stored]
               /\ stored \in C5_Unparsable => last.retU32 = last.u32)
  /\ [][last'.op = "getConfigurationValueUint32" =>
          configuration_' = configuration_]_vars

C5_Witness ==
  /\ last.op = "getConfigurationValueUint32"
  /\ last.key \in DOMAIN configuration_
  /\ configuration_[last.key] = <<"4", "2", "9", "4", "9", "6", "7", "2", "9", "6">>
  /\ last.u32 = U32(0, 7)
  /\ last.retU32 = U32(0, 7)

\* C6: from every state and for every answer of the scheduler, resume2 with
\* a null request makes the same scheduler calls, leaves the same scheduler
\* state and returns the same response as resume2 with a request naming
\* "UNKNOWN_PHASE": setPhase("UNKNOWN_PHASE"), then resume.
C6_NullRequestIsUnknownPhase ==
  /\ \A nowRunning \in BOOLEAN :
       Resume2Result(scheduler_, NullRequest, nowRunning)
         = Resume2Result(scheduler_, Request("UNKNOWN_PHASE"), nowRunning)
  /\ (last.op = "resume2" /\ last.req.null) =>
       /\ last.calls = << SchedCall("setPhase", "UNKNOWN_PHASE", 0),
                          SchedCall("resume", "", 0) >>
       /\ scheduler_.phase = "UNKNOWN_PHASE"
       /\ last.retBool = scheduler_.running

C6_Witness ==
  /\ last.op = "resume2"
  /\ last.req.null
  /\ scheduler_.phase = "UNKNOWN_PHASE"
  /\ last.retBool

\* C15: resume2 calls setPhase(phaseName) on the scheduler and then resume(),
\* and reports as success the boolean that resume() returned; resume calls
\* resume() and returns the boolean it returned.
C15_PhaseBeforeResumeAndResult ==
  /\ last.op = "resume2" =>
       /\ Len(last.calls) = 2
       /\ last.calls[1] = SchedCall("setPhase", PhaseNameOf(last.req), 0)
       /\ last.calls[2] = SchedCall("resume", "", 0)
       /\ scheduler_.phase = PhaseNameOf(last.req)
       /\ last.retBool = scheduler_.running
  /\ last.op = "resume" =>
       /\ last.calls = << SchedCall("resume", "", 0) >>
       /\ last.retBool = scheduler_.running

C15_Witness ==
  /\ last.op = "resume2"
  /\ ~last.req.null
  /\ last.req.phaseName = "warmup"
  /\ scheduler_.phase = "warmup"
  /\ ~last.retBool

\* C16: after setConfiguration calls on one key with different values the
\* store holds, and getConfiguration returns, the value of the call that ran
\* last.
C16_LastWriterWins ==
  last.op = "setConfiguration" =>
    /\ last.key \in DOMAIN configuration_
    /\ GetConfigurationResult(configuration_, last.key)
         = [outcome |-> "ok", value |-> last.str]

\* C18: entries leave the store only through pause: every other method but
\* setConfiguration leaves the store as it is, and setConfiguration removes
\* no entry and changes no entry of another key.
C18_OnlyPauseRemovesEntries ==
  [][ /\ last'.op \notin { "pause", "setConfiguration" } =>
           configuration_' = configuration_
      /\ last'.op = "setConfiguration" =>
           \A k \in DOMAIN configuration_ :
             /\ k \in DOMAIN configuration_'
             /\ k # last'.key => configuration_'[k] = configuration_[k] ]_vars

C18_Witness ==
  /\ last.op = "setConfiguration"
  /\ \E k \in DOMAIN configuration_ :
       /\ k # last.key
       /\ lastSet[k].st = "set"

\* C19: setConfiguration is idempotent: on every store, for every key and
\* value, applying it twice in a row leaves the store that applying it once
\* leaves.
C19_SetConfigurationIdempotent ==
  \A k \in Keys, v \in Values :
    LET once == SetConfigurationResult(configuration_, k, v)
    IN  SetConfigurationResult(once, k, v) = once

C19_Witness ==
  /\ last.op = "setConfiguration"
  /\ DOMAIN configuration_ = Keys
  /\ SetConfigurationResult(configuration_, last.key, last.str) = configuration_


(***************************************************************************)
(* Properties of the singleton bootstrap.                                  *)
(***************************************************************************)
\* C7: at most one TreadmillFB303 is ever constructed and stored as the
\* singleton, and once instance is set it never changes or becomes unset.
C7_SingletonSetOnce ==
  /\ [](handlers <= 1 /\ instance \in { NullInstance, 1 })
  /\ [][instance # NullInstance => instance' = instance]_vars

C7_Witness ==
  /\ instance # NullInstance
  /\ handlers = 1
  /\ fatal = "already_set"
  /\ \E t, u \in Threads :
       /\ t # u
       /\ bpc[t] = "m_check"
       /\ bop[u] = "make_fb303"
       /\ bpc[u] = "m_server"

\* C8: a make_fb303 that finds instance set ends the process in the fatal
\* state without replacing the instance, constructing a handler or making
\* or starting a server; so only one make_fb303 ever gets past the check.
C8_SecondMakeIsFatal ==
  /\ [](/\ Cardinality({ t \in Threads : server[t].exists }) <= 1
        /\ serving <= 1
        /\ handlers <= 1
        /\ fatal = "already_set" => instance = 1)
  /\ [][ \A t \in Threads :
           (MakeCheck(t) /\ instance # NullInstance) =>
             /\ fatal' = "already_set"
             /\ UNCHANGED << instance, handlers, server, serving, bpc >> ]_vars
  /\ [][ fatal # "none" => UNCHANGED vars ]_vars

C8_Witness ==
  /\ fatal = "already_set"
  /\ serving = 1
  /\ \E t \in Threads :
       /\ bpc[t] = "m_check"
       /\ ~server[t].exists
       /\ \A u \in Threads \ {t} : bpc[u] = "idle"

\* C9: getGlobalTreadmillFB303 never returns null: with no instance stored
\* it ends in the fatal state, otherwise it returns the stored instance, to
\* which the server is bound; the call inside make_fb303 is never fatal.
C9_AccessorNeverReturnsNull ==
  /\ \A t \in Threads :
       /\ bpc[t] \in { "g_unlock", "g_done", "m_bind", "m_start", "m_done" } =>
            (bret[t] # NullInstance /\ bret[t] = instance)
       /\ server[t].started =>
            (server[t].interface # NullInstance /\ server[t].interface = instance)
       /\ (bpc[t] = "g_check" /\ instance = NullInstance) =>
            bop[t] = "getGlobalTreadmillFB303"
  /\ fatal = "not_set" =>
       /\ instance = NullInstance
       /\ \E t \in Threads :
            bpc[t] = "g_check" /\ bop[t] = "getGlobalTreadmillFB303"

C9_Witness ==
  \E t, u \in Threads :
    /\ bop[t] = "getGlobalTreadmillFB303"
    /\ bpc[t] = "g_done"
    /\ bret[t] = 1
    /\ server[u].started
    /\ server[u].interface = bret[t]

\* Reached as well: the accessor called before any make_fb303 stored the
\* instance ends in the fatal state.
C9_FatalReached ==
  /\ fatal = "not_set"
  /\ instance = NullInstance


(***************************************************************************)
(* Properties of the configuration methods under concurrent callers.       *)
(***************************************************************************)
\* C10: after concurrent setConfiguration calls on distinct keys have all
\* returned, the getConfiguration of each key returns the value set for it.
C10_ConcurrentSetsAllReadBack ==
  \A t \in Threads :
    (pc[t] = "done" /\ call[t].op = "getConfiguration") =>
      /\ ret[t].outcome = "ok"
      /\ lastSet[call[t].key].st = "set"
      /\ ret[t].value = lastSet[call[t].key].val

\* C11: the store follows a readers-writer discipline: while a thread is
\* inside a modifying member call of the map (setConfiguration's emplace,
\* pause's clear) no other thread is inside any member call of it, and no
\* call's access overlaps a modification.
C11_StoreReadersWriterDiscipline ==
  \A t \in Threads :
    /\ access[t] = "write" => \A u \in Threads \ {t} : access[u] = "none"
    /\ ~torn[t]

\* A thread inside pause whose scheduler_.pause() has returned and whose
\* configuration_->clear() has not.
PausedNotCleared(t) ==
  /\ pc[t] \in { "pause", "in_clear" }
  /\ trail[t] = << "scheduler_.pause" >>

\* C12: pause empties the store atomically with pausing: in no state has a
\* pause paused the scheduler while the store still holds an entry set before
\* that, and no getConfiguration started after a pause paused the scheduler
\* returns a value set before that pause.
C12_PauseClearsAtomically ==
  /\ \A t \in Threads :
       PausedNotCleared(t) =>
         \A k \in Keys : lastSet[k].st = "paused" => k \notin DOMAIN configuration_
  /\ \A u \in Threads :
       (pc[u] = "done" /\ call[u].op = "getConfiguration" /\ ret[u].outcome = "ok") =>
         ret[u].value \notin stale[u]

\* C14: in every pause, scheduler_.pause() is called before the store is
\* cleared and the store is cleared before pause returns; no pause clears
\* the store before it has paused the scheduler.
C14_PauseBeforeClearBeforeReturn ==
  \A t \in Threads :
    /\ pc[t] = "in_clear" =>
         /\ trail[t] = << "scheduler_.pause" >>
         /\ ~scheduler_.running
    /\ (pc[t] = "done" /\ call[t].op = "pause") =>
         /\ trail[t] = << "scheduler_.pause", "configuration_->clear" >>
         /\ ~scheduler_.running

C14_Witness ==
  \E t \in Threads :
    /\ pc[t] = "done"
    /\ call[t].op = "pause"
    /\ \E k \in Keys : lastSet[k].st = "cleared"
    /\ configuration_ = EmptyMap


(***************************************************************************)
(* Properties of the status methods under concurrent callers.              *)
(***************************************************************************)
\* Where a thread is between taking and releasing mutex_ in setStatus.
WriteSection == { "s_write", "s_in_write", "s_unlock" }

\* Where a thread is between taking and releasing mutex_ in getStatus or
\* aliveSince.
ReadSection == { "g_read", "g_in_read", "g_unlock", "a_unlock" }

\* C13: the status register follows a readers-writer discipline on mutex_:
\* a setStatus holds it exclusively, readers (getStatus, aliveSince) hold it
\* only with other readers, no access of status_ overlaps a write of it, and
\* every getStatus returns STARTING or the argument of a setStatus that has
\* completed or is in progress.
C13_StatusReadersWriterDiscipline ==
  \A t \in Threads :
    /\ pc[t] \in WriteSection =>
         /\ mutex_.writer = t
         /\ mutex_.readers = {}
         /\ \A u \in Threads \ {t} : pc[u] \notin WriteSection \cup ReadSection
    /\ pc[t] \in ReadSection =>
         /\ t \in mutex_.readers
         /\ mutex_.writer = NoThread
    /\ ~torn[t]
    /\ (pc[t] = "done" /\ call[t].op = "getStatus") =>
         sret[t].num \in { InitialStatus } \cup written

C13_Witness ==
  \E t \in Threads :
    /\ pc[t] = "done"
    /\ call[t].op = "getStatus"
    /\ sret[t].num # InitialStatus
    /\ sret[t].num \in written

\* Reached as well: two readers hold mutex_ at the same time.
C13_ReadersShare ==
  \E t, u \in Threads :
    /\ t # u
    /\ pc[t] = "g_in_read"
    /\ pc[u] \in ReadSection

\* C17: getStatusDetails reads the status once and returns the name of the
\* value it read, which is a value status_ had at some instant of the call,
\* whatever setStatus calls run concurrently.
C17_StatusDetailsFromOneRead ==
  \A t \in Threads :
    (pc[t] = "done" /\ call[t].op = "getStatusDetails") =>
      /\ trail[t] = << "return status_" >>
      /\ sret[t].num \in seen[t]
      /\ sret[t].name = StatusNames[sret[t].num]

C17_Witness ==
  \E t \in Threads :
    /\ pc[t] = "done"
    /\ call[t].op = "getStatusDetails"
    /\ sret[t].name = "ALIVE"
    /\ Cardinality(seen[t]) > 1


(***************************************************************************)
(* Properties of the serving thread and its handle.                        *)
(***************************************************************************)
\* C20: the serving thread is started only after the singleton was stored
\* and bound to the server; the teardown of the handle asks the server to
\* stop before it joins the thread; and every teardown that has begun
\* completes (the join returns), unless the process was aborted.
C20_TeardownCompletes ==
  /\ [](\A t \in Threads :
          serve_thread[t] # "none" =>
            /\ instance # NullInstance
            /\ server[t].interface = instance)
  /\ [](\A t \in Threads :
          server_thread[t] = "deleted" => serve_thread[t] = "returned")
  /\ \A t \in Threads :
       (server_thread[t] = "joining")
         ~> (server_thread[t] = "deleted" \/ fatal # "none")

\* Holds as well: a teardown whose stop() reached a server already set up
\* by serve() completes.
C20_CompletesOnceSetUp ==
  \A t \in Threads :
    (server_thread[t] = "joining" /\ stopping[t])
      ~> (server_thread[t] = "deleted" \/ fatal # "none")

\* Reached as well: a teardown that began before the serving thread entered
\* serve() waits in join while the thread loops.
C20_JoinWaitsOnLoop ==
  \E t \in Threads :
    /\ server_thread[t] = "joining"
    /\ serve_thread[t] = "looping"
    /\ ~stopping[t]

====
